---- MODULE Spec2Model ----
(***************************************************************************)
(* picofp: the Maybe (Some / None) and Result (Ok / Err) containers of     *)
(* src/src/Maybe.ts and src/src/Result.ts.                                 *)
(*                                                                         *)
(* The state is the heap of container instances constructed so far and a   *)
(* record of the most recent method call: its receiver, its arguments, the *)
(* callbacks it invoked (in order) and how it completed (a returned value  *)
(* or a thrown error); origin is the history of the heap: for each         *)
(* instance, the call that allocated it (the method, its receiver and the  *)
(* callbacks it invoked).  Every method is an operator from the heap, the  *)
(* receiver and the arguments to an effect record; every action is one     *)
(* method call with virtual dispatch on the receiver's class.  A behaviour *)
(* is one chain new C(v).m1(..).m2(..)...; the calls that return no        *)
(* instance (tests, match, contains, unwrap, unwrapOr) are made on the     *)
(* links of the chain.                                                     *)
(***************************************************************************)
EXTENDS Integers, Sequences, FiniteSets, TLC

VARIABLES heap, last, origin

vars == <<heap, last, origin>>

\* Bound of the exploration: the number of instances a run allocates.
MaxHeap == 3

(***************************************************************************)
(* JavaScript values.                                                      *)
(***************************************************************************)
Num(n) == [t |-> "number", n |-> n]
Str(s) == [t |-> "string", s |-> s]
Bool(b) == [t |-> "boolean", b |-> b]
Ref(a) == [t |-> "object", addr |-> a]
Null == [t |-> "null"]
Undefined == [t |-> "undefined"]
NaN == [t |-> "NaN"]

\* Payloads and arguments supplied by the caller.
Values == {Num(1), Str(<<"a">>), Null, NaN}

DigitChar == <<"0", "1", "2", "3", "4", "5", "6", "7", "8", "9">>

RECURSIVE Digits(_)
Digits(n) ==
  IF n < 10 THEN <<DigitChar[n + 1]>>
  ELSE Digits(n \div 10) \o <<DigitChar[(n % 10) + 1]>>

\* The text of a value that has a toString method.
Rendered(v) ==
  CASE v.t = "number" -> Digits(v.n)
    [] v.t = "string" -> v.s
    [] v.t = "boolean" -> IF v.b THEN <<"t", "r", "u", "e">> ELSE <<"f", "a", "l", "s", "e">>
    [] v.t = "NaN" -> <<"N", "a", "N">>
    [] v.t = "object" -> <<"[object Object]">>

\* a === b
StrictEq(a, b) == a.t # "NaN" /\ b.t # "NaN" /\ a = b

Return(v) == [kind |-> "return", value |-> v]
Throw(e) == [kind |-> "throw", error |-> e]

\* new Error(message)
NewError(message) == [name |-> "Error", message |-> message]
\* The runtime's error for a property read on null or undefined.
TypeError == [name |-> "TypeError"]

\* v.toString()
toString(v) ==
  IF v.t \in {"null", "undefined"} THEN Throw(TypeError)
  ELSE Return(Str(Rendered(v)))

(***************************************************************************)
(* Instances.                                                              *)
(***************************************************************************)
MkSome(value) == [cls |-> "Some", __tag |-> "Some", value |-> value]
MkNone == [cls |-> "None", __tag |-> "None"]
MkOk(value) == [cls |-> "Ok", __tag |-> "Ok", value |-> value]
MkErr(error) == [cls |-> "Err", __tag |-> "Err", error |-> error]

\* The effect of a call: the heap after it, the callbacks invoked, the outcome.
Eff(h, calls, outcome) == [heap |-> h, calls |-> calls, outcome |-> outcome]

\* `new C(...)` as the value of a return statement.
Alloc(h, obj, calls) == Eff(Append(h, obj), calls, Return(Ref(Len(h) + 1)))

(***************************************************************************)
(* Functions the caller passes in.                                         *)
(***************************************************************************)
ValueFns == {"identity", "inc"}
MaybeFns == {"toSome", "toNone"}
ResultFns == {"toOk", "toErr"}

\* v + 1
Plus1(v) ==
  CASE v.t = "number" -> Num(v.n + 1)
    [] v.t = "string" -> Str(v.s \o <<"1">>)
    [] v.t = "null" -> Num(1)
    [] OTHER -> NaN

\* fn(...args): the heap after the call and the value returned.
CallFn(h, fn, args) ==
  CASE fn = "identity" -> [heap |-> h, ret |-> args[1]]
    [] fn = "inc" -> [heap |-> h, ret |-> Plus1(args[1])]
    [] fn = "ten" -> [heap |-> h, ret |-> Num(10)]
    [] fn = "toSome" -> [heap |-> Append(h, MkSome(args[1])), ret |-> Ref(Len(h) + 1)]
    [] fn = "toNone" -> [heap |-> Append(h, MkNone), ret |-> Ref(Len(h) + 1)]
    [] fn = "toOk" -> [heap |-> Append(h, MkOk(args[1])), ret |-> Ref(Len(h) + 1)]
    [] fn = "toErr" -> [heap |-> Append(h, MkErr(args[1])), ret |-> Ref(Len(h) + 1)]

\* The log entry of one invocation: which parameter was called, with what.
Invocation(slot, fn, args, ret) == [slot |-> slot, fn |-> fn, args |-> args, ret |-> ret]

(***************************************************************************)
(* Maybe                                                                   *)
(***************************************************************************)
\* Mutation: the tag is compared with the wrong literal.
Maybe_isSome_WrongTag(h, this) == h[this].__tag = "some"

Maybe_isSome(h, this) == h[this].__tag = "Some"

Maybe_isNone(h, this) == ~Maybe_isSome(h, this)

Maybe_match(h, this, matcher) ==
  IF Maybe_isSome(h, this)
  THEN LET r == CallFn(h, matcher.Some, <<h[this].value>>)
       IN Eff(r.heap, <<Invocation("Some", matcher.Some, <<h[this].value>>, r.ret)>>,
              Return(r.ret))
  ELSE LET r == CallFn(h, matcher.None, <<>>)
       IN Eff(r.heap, <<Invocation("None", matcher.None, <<>>, r.ret)>>, Return(r.ret))

Some_contains(h, this, value) == Eff(h, <<>>, Return(Bool(StrictEq(h[this].value, value))))

Some_unwrap(h, this) == Eff(h, <<>>, Return(h[this].value))

Some_unwrapOr(h, this, def) == Eff(h, <<>>, Return(h[this].value))

Some_map(h, this, fn) ==
  LET r == CallFn(h, fn, <<h[this].value>>)
  IN Alloc(r.heap, MkSome(r.ret), <<Invocation("fn", fn, <<h[this].value>>, r.ret)>>)

Some_mapOr(h, this, fn, def) ==
  LET r == CallFn(h, fn, <<h[this].value>>)
  IN Alloc(r.heap, MkSome(r.ret), <<Invocation("fn", fn, <<h[this].value>>, r.ret)>>)

\* Mutation: flatMap wraps the function's result, as map does.
Some_flatMap_Wraps(h, this, fn) ==
  LET r == CallFn(h, fn, <<h[this].value>>)
  IN Alloc(r.heap, MkSome(r.ret), <<Invocation("fn", fn, <<h[this].value>>, r.ret)>>)

Some_flatMap(h, this, fn) ==
  LET r == CallFn(h, fn, <<h[this].value>>)
  IN Eff(r.heap, <<Invocation("fn", fn, <<h[this].value>>, r.ret)>>, Return(r.ret))

None_contains(h, this, value) == Eff(h, <<>>, Return(Bool(FALSE)))

\* Mutation: the empty variant yields undefined instead of raising.
None_unwrap_ReturnsUndefined(h, this) == Eff(h, <<>>, Return(Undefined))

None_unwrap(h, this) == Eff(h, <<>>, Throw(NewError(<<"Unwrap called on None value">>)))

None_unwrapOr(h, this, def) == Eff(h, <<>>, Return(def))

None_map(h, this, fn) == Alloc(h, MkNone, <<>>)

None_mapOr(h, this, fn, def) == Alloc(h, MkSome(def), <<>>)

None_flatMap(h, this, fn) == Alloc(h, MkNone, <<>>)

(***************************************************************************)
(* Result                                                                  *)
(***************************************************************************)
Result_isOk(h, this) == h[this].__tag = "Ok"

\* Mutation: the negation is left out.
Result_isErr_NotNegated(h, this) == Result_isOk(h, this)

Result_isErr(h, this) == ~Result_isOk(h, this)

\* Mutation: the second test repeats isOk, so an Err falls through.
Result_match_FallsThrough(h, this, matcher) ==
  IF Result_isOk(h, this)
  THEN LET r == CallFn(h, matcher.Ok, <<h[this].value>>)
       IN Eff(r.heap, <<Invocation("Ok", matcher.Ok, <<h[this].value>>, r.ret)>>,
              Return(r.ret))
  ELSE IF Result_isOk(h, this)
  THEN LET r == CallFn(h, matcher.Err, <<h[this].error>>)
       IN Eff(r.heap, <<Invocation("Err", matcher.Err, <<h[this].error>>, r.ret)>>,
              Return(r.ret))
  ELSE Eff(h, <<>>, Return(Undefined))

\* A call that reaches the end of the function body returns undefined.
Result_match(h, this, matcher) ==
  IF Result_isOk(h, this)
  THEN LET r == CallFn(h, matcher.Ok, <<h[this].value>>)
       IN Eff(r.heap, <<Invocation("Ok", matcher.Ok, <<h[this].value>>, r.ret)>>,
              Return(r.ret))
  ELSE IF Result_isErr(h, this)
  THEN LET r == CallFn(h, matcher.Err, <<h[this].error>>)
       IN Eff(r.heap, <<Invocation("Err", matcher.Err, <<h[this].error>>, r.ret)>>,
              Return(r.ret))
  ELSE Eff(h, <<>>, Return(Undefined))

Ok_contains(h, this, value) == Eff(h, <<>>, Return(Bool(StrictEq(h[this].value, value))))

Ok_ok(h, this) == Alloc(h, MkSome(h[this].value), <<>>)

Ok_err(h, this) == Alloc(h, MkNone, <<>>)

Ok_unwrap(h, this) == Eff(h, <<>>, Return(h[this].value))

Ok_unwrapOr(h, this, def) == Eff(h, <<>>, Return(h[this].value))

Ok_map(h, this, fn) ==
  LET r == CallFn(h, fn, <<h[this].value>>)
  IN Alloc(r.heap, MkOk(r.ret), <<Invocation("fn", fn, <<h[this].value>>, r.ret)>>)

Ok_mapOr(h, this, fn, def) ==
  LET r == CallFn(h, fn, <<h[this].value>>)
  IN Alloc(r.heap, MkOk(r.ret), <<Invocation("fn", fn, <<h[this].value>>, r.ret)>>)

\* Mutation: mapErr on an Ok transforms the value, as map does.
Ok_mapErr_AppliesFn(h, this, fn) ==
  LET r == CallFn(h, fn, <<h[this].value>>)
  IN Alloc(r.heap, MkOk(r.ret), <<>>)

Ok_mapErr(h, this, fn) == Alloc(h, MkOk(h[this].value), <<>>)

Ok_flatMap(h, this, fn) ==
  LET r == CallFn(h, fn, <<h[this].value>>)
  IN Eff(r.heap, <<Invocation("fn", fn, <<h[this].value>>, r.ret)>>, Return(r.ret))

\* Mutation: contains on an Err answers false, as None.contains does.
Err_contains_AlwaysFalse(h, this, error) == Eff(h, <<>>, Return(Bool(FALSE)))

Err_contains(h, this, error) == Eff(h, <<>>, Return(Bool(StrictEq(h[this].error, error))))

Err_ok(h, this) == Alloc(h, MkNone, <<>>)

\* Mutation: err on an Err yields None, as ok does.
Err_err_ReturnsNone(h, this) == Alloc(h, MkNone, <<>>)

Err_err(h, this) == Alloc(h, MkSome(h[this].error), <<>>)

\* throw new Error(this.error.toString()): the argument is evaluated first.
Err_unwrap(h, this) ==
  LET s == toString(h[this].error)
  IN IF s.kind = "throw" THEN Eff(h, <<>>, s)
     ELSE Eff(h, <<>>, Throw(NewError(s.value.s)))

\* Mutation: unwrapOr on an Err yields the error instead of the default.
Err_unwrapOr_ReturnsError(h, this, value) == Eff(h, <<>>, Return(h[this].error))

Err_unwrapOr(h, this, value) == Eff(h, <<>>, Return(value))

\* Mutation: map on an Err transforms the error, as mapErr does.
Err_map_AppliesFn(h, this, fn) ==
  LET r == CallFn(h, fn, <<h[this].error>>)
  IN Alloc(r.heap, MkErr(r.ret), <<>>)

Err_map(h, this, fn) == Alloc(h, MkErr(h[this].error), <<>>)

\* Mutation: mapOr on an Err passes the Err through, as map does.
Err_mapOr_KeepsErr(h, this, fn, def) == Alloc(h, MkErr(h[this].error), <<>>)

Err_mapOr(h, this, fn, def) == Alloc(h, MkOk(def), <<>>)

Err_mapErr(h, this, fn) ==
  LET r == CallFn(h, fn, <<h[this].error>>)
  IN Alloc(r.heap, MkErr(r.ret), <<Invocation("fn", fn, <<h[this].error>>, r.ret)>>)

Err_flatMap(h, this, fn) == Alloc(h, MkErr(h[this].error), <<>>)

(***************************************************************************)
(* Virtual dispatch on the receiver's class.                               *)
(***************************************************************************)
Maybe_contains(h, this, value) ==
  IF h[this].cls = "Some" THEN Some_contains(h, this, value) ELSE None_contains(h, this, value)

Maybe_unwrap(h, this) ==
  IF h[this].cls = "Some" THEN Some_unwrap(h, this) ELSE None_unwrap(h, this)

Maybe_unwrapOr(h, this, def) ==
  IF h[this].cls = "Some" THEN Some_unwrapOr(h, this, def) ELSE None_unwrapOr(h, this, def)

Maybe_map(h, this, fn) ==
  IF h[this].cls = "Some" THEN Some_map(h, this, fn) ELSE None_map(h, this, fn)

Maybe_mapOr(h, this, fn, def) ==
  IF h[this].cls = "Some" THEN Some_mapOr(h, this, fn, def) ELSE None_mapOr(h, this, fn, def)

Maybe_flatMap(h, this, fn) ==
  IF h[this].cls = "Some" THEN Some_flatMap(h, this, fn) ELSE None_flatMap(h, this, fn)

Result_contains(h, this, value) ==
  IF h[this].cls = "Ok" THEN Ok_contains(h, this, value) ELSE Err_contains(h, this, value)

Result_ok(h, this) ==
  IF h[this].cls = "Ok" THEN Ok_ok(h, this) ELSE Err_ok(h, this)

Result_err(h, this) ==
  IF h[this].cls = "Ok" THEN Ok_err(h, this) ELSE Err_err(h, this)

Result_unwrap(h, this) ==
  IF h[this].cls = "Ok" THEN Ok_unwrap(h, this) ELSE Err_unwrap(h, this)

Result_unwrapOr(h, this, def) ==
  IF h[this].cls = "Ok" THEN Ok_unwrapOr(h, this, def) ELSE Err_unwrapOr(h, this, def)

Result_map(h, this, fn) ==
  IF h[this].cls = "Ok" THEN Ok_map(h, this, fn) ELSE Err_map(h, this, fn)

Result_mapOr(h, this, fn, def) ==
  IF h[this].cls = "Ok" THEN Ok_mapOr(h, this, fn, def) ELSE Err_mapOr(h, this, fn, def)

Result_mapErr(h, this, fn) ==
  IF h[this].cls = "Ok" THEN Ok_mapErr(h, this, fn) ELSE Err_mapErr(h, this, fn)

Result_flatMap(h, this, fn) ==
  IF h[this].cls = "Ok" THEN Ok_flatMap(h, this, fn) ELSE Err_flatMap(h, this, fn)

(***************************************************************************)
(* Actions                                                                 *)
(***************************************************************************)
\* The instances a caller can construct directly.
Roots ==
  {MkSome(v) : v \in Values} \cup {MkNone} \cup {MkOk(v) : v \in Values}
    \cup {MkErr(e) : e \in Values}

NoArgs == [none |-> TRUE]

\* The state after `new Some(v)`, `new None()`, `new Ok(v)` or `new Err(e)`.
Init ==
  /\ \E obj \in Roots : heap = <<obj>>
  /\ last = [op |-> "new", this |-> 1, args |-> NoArgs,
             calls |-> <<>>, outcome |-> Return(Ref(1))]
  /\ origin = <<[op |-> "new", from |-> 0, calls |-> <<>>]>>

\* One completed call: the heap it leaves and the record of the call.
Call(op, this, args, eff) ==
  /\ Len(eff.heap) <= MaxHeap
  /\ heap' = eff.heap
  /\ last' = [op |-> op, this |-> this, args |-> args,
              calls |-> eff.calls, outcome |-> eff.outcome]
  /\ origin' = IF Len(eff.heap) > Len(heap)
               THEN Append(origin, [op |-> op, from |-> this, calls |-> eff.calls])
               ELSE origin

\* A run is a chain of calls: the receiver is the instance made last.
Receivers == {Len(heap)} \cap DOMAIN heap
Maybes == {a \in Receivers : heap[a].cls \in {"Some", "None"}}
Results == {a \in Receivers : heap[a].cls \in {"Ok", "Err"}}

\* The fields each class declares readonly.
ReadonlyFields(cls) ==
  CASE cls = "Some" -> {"__tag", "value"}
    [] cls = "None" -> {"__tag"}
    [] cls = "Ok" -> {"__tag"}
    [] cls = "Err" -> {"__tag", "error"}

\* The fields of an instance that the caller may assign.
Writable(o) == (DOMAIN o \ {"cls"}) \ ReadonlyFields(o.cls)

\* x.f = v, for a field f of x that is not readonly.
Assign ==
  \E a \in Receivers, v \in Values :
    \E f \in Writable(heap[a]) :
      /\ heap' = [heap EXCEPT ![a][f] = v]
      /\ last' = [op |-> "assign", this |-> a, args |-> [field |-> f, value |-> v],
                  calls |-> <<>>, outcome |-> Return(v)]
      /\ UNCHANGED origin

MaybeIsSome ==
  \E a \in Maybes : Call("isSome", a, NoArgs, Eff(heap, <<>>, Return(Bool(Maybe_isSome(heap, a)))))

MaybeIsNone ==
  \E a \in Maybes : Call("isNone", a, NoArgs, Eff(heap, <<>>, Return(Bool(Maybe_isNone(heap, a)))))

MaybeMatch ==
  \E a \in Maybes, f \in ValueFns :
    LET m == [Some |-> f, None |-> "ten"]
    IN Call("match", a, [matcher |-> m], Maybe_match(heap, a, m))

MaybeContains ==
  \E a \in Maybes, v \in Values : Call("contains", a, [value |-> v], Maybe_contains(heap, a, v))

MaybeUnwrap == \E a \in Maybes : Call("unwrap", a, NoArgs, Maybe_unwrap(heap, a))

MaybeUnwrapOr ==
  \E a \in Maybes, d \in Values : Call("unwrapOr", a, [def |-> d], Maybe_unwrapOr(heap, a, d))

MaybeMap ==
  \E a \in Maybes, f \in ValueFns : Call("map", a, [fn |-> f], Maybe_map(heap, a, f))

MaybeMapOr ==
  \E a \in Maybes, f \in ValueFns, d \in Values :
    Call("mapOr", a, [fn |-> f, def |-> d], Maybe_mapOr(heap, a, f, d))

MaybeFlatMap ==
  \E a \in Maybes, g \in MaybeFns : Call("flatMap", a, [fn |-> g], Maybe_flatMap(heap, a, g))

ResultIsOk ==
  \E a \in Results : Call("isOk", a, NoArgs, Eff(heap, <<>>, Return(Bool(Result_isOk(heap, a)))))

ResultIsErr ==
  \E a \in Results : Call("isErr", a, NoArgs, Eff(heap, <<>>, Return(Bool(Result_isErr(heap, a)))))

ResultMatch ==
  \E a \in Results, f \in ValueFns, g \in ValueFns :
    LET m == [Ok |-> f, Err |-> g]
    IN Call("match", a, [matcher |-> m], Result_match(heap, a, m))

ResultContains ==
  \E a \in Results, v \in Values : Call("contains", a, [value |-> v], Result_contains(heap, a, v))

ResultOk == \E a \in Results : Call("ok", a, NoArgs, Result_ok(heap, a))

ResultErr == \E a \in Results : Call("err", a, NoArgs, Result_err(heap, a))

ResultUnwrap == \E a \in Results : Call("unwrap", a, NoArgs, Result_unwrap(heap, a))

ResultUnwrapOr ==
  \E a \in Results, d \in Values : Call("unwrapOr", a, [def |-> d], Result_unwrapOr(heap, a, d))

ResultMap ==
  \E a \in Results, f \in ValueFns : Call("map", a, [fn |-> f], Result_map(heap, a, f))

ResultMapOr ==
  \E a \in Results, f \in ValueFns, d \in Values :
    Call("mapOr", a, [fn |-> f, def |-> d], Result_mapOr(heap, a, f, d))

ResultMapErr ==
  \E a \in Results, f \in ValueFns : Call("mapErr", a, [fn |-> f], Result_mapErr(heap, a, f))

ResultFlatMap ==
  \E a \in Results, g \in ResultFns : Call("flatMap", a, [fn |-> g], Result_flatMap(heap, a, g))

Next ==
  \/ MaybeIsSome
  \/ MaybeIsNone
  \/ MaybeMatch
  \/ MaybeContains
  \/ MaybeUnwrap
  \/ MaybeUnwrapOr
  \/ MaybeMap
  \/ MaybeMapOr
  \/ MaybeFlatMap
  \/ ResultIsOk
  \/ ResultIsErr
  \/ ResultMatch
  \/ ResultContains
  \/ ResultOk
  \/ ResultErr
  \/ ResultUnwrap
  \/ ResultUnwrapOr
  \/ ResultMap
  \/ ResultMapOr
  \/ ResultMapErr
  \/ ResultFlatMap

Spec == Init /\ [][Next]_vars

(***************************************************************************)
(* The free constructors some, none, ok and err.  src/src/index.ts exports *)
(* them and the tests call them; they are what the specification says of   *)
(* them: alternatives to direct construction of the variant.               *)
(***************************************************************************)
some(h, value) == Alloc(h, MkSome(value), <<>>)

none(h) == Alloc(h, MkNone, <<>>)

ok(h, value) == Alloc(h, MkOk(value), <<>>)

err(h, error) == Alloc(h, MkErr(error), <<>>)

\* Before anything is constructed.
InitFree ==
  /\ heap = <<>>
  /\ last = [op |-> "load", this |-> 0, args |-> NoArgs,
             calls |-> <<>>, outcome |-> Return(Undefined)]
  /\ origin = <<>>

\* The chain starts with a call of a free constructor.
FreeSome ==
  \E v \in Values : heap = <<>> /\ Call("some(v)", 0, [value |-> v], some(heap, v))

FreeNone == heap = <<>> /\ Call("none()", 0, NoArgs, none(heap))

FreeOk ==
  \E v \in Values : heap = <<>> /\ Call("ok(v)", 0, [value |-> v], ok(heap, v))

FreeErr ==
  \E e \in Values : heap = <<>> /\ Call("err(e)", 0, [error |-> e], err(heap, e))

NextFree ==
  \/ FreeSome
  \/ FreeNone
  \/ FreeOk
  \/ FreeErr
  \/ Next

SpecFree == InitFree /\ [][NextFree]_vars

\* The library's methods together with the caller's writes to the fields the
\* declarations leave writable.
NextWithAssign ==
  \/ Next
  \/ Assign

SpecWithAssign == Init /\ [][NextWithAssign]_vars

(***************************************************************************)
(* Vocabulary of the properties.                                           *)
(***************************************************************************)
\* The receiver of the last call and the instance it returned.
Receiver == heap[last.this]
Returned == heap[last.outcome.value.addr]
ReturnsInstance == last.outcome.kind = "return" /\ last.outcome.value.t = "object"

\* The payload of an instance, as an argument list.
Payload(o) ==
  IF o.cls \in {"Some", "Ok"} THEN <<o.value>>
  ELSE IF o.cls = "Err" THEN <<o.error>>
  ELSE <<>>

\* f(v) for a function f that allocates nothing.
Apply(f, v) == CallFn(<<>>, f, <<v>>).ret

\* The instance g(v) builds, for a function g that returns a new instance.
Built(g, v) == CallFn(<<>>, g, <<v>>).heap[1]

\* C1: every instance is exactly one of its family's two variants: isSome is
\* true exactly of a Some and isNone exactly of a None, isOk exactly of an Ok
\* and isErr exactly of an Err, each test the negation of the other, for
\* constructed instances and for those any chain of calls returned.
C1_ExactlyOneVariant ==
  /\ \A a \in DOMAIN heap :
       /\ heap[a].cls \in {"Some", "None", "Ok", "Err"}
       /\ heap[a].cls \in {"Some", "None"} =>
            /\ Maybe_isSome(heap, a) = (heap[a].cls = "Some")
            /\ Maybe_isNone(heap, a) = (heap[a].cls = "None")
            /\ Maybe_isNone(heap, a) = ~Maybe_isSome(heap, a)
       /\ heap[a].cls \in {"Ok", "Err"} =>
            /\ Result_isOk(heap, a) = (heap[a].cls = "Ok")
            /\ Result_isErr(heap, a) = (heap[a].cls = "Err")
            /\ Result_isErr(heap, a) = ~Result_isOk(heap, a)
  /\ last.op = "isSome" => last.outcome = Return(Bool(Receiver.cls = "Some"))
  /\ last.op = "isNone" => last.outcome = Return(Bool(Receiver.cls = "None"))
  /\ last.op = "isOk" => last.outcome = Return(Bool(Receiver.cls = "Ok"))
  /\ last.op = "isErr" => last.outcome = Return(Bool(Receiver.cls = "Err"))

\* isNone has answered true on a None that a chain of calls returned.
C1_Witness ==
  /\ last.op = "isNone"
  /\ last.this > 1
  /\ Receiver.cls = "None"
  /\ last.outcome = Return(Bool(TRUE))

\* The variant a function parameter of a combinator belongs to.
Owners(op) == IF op = "mapErr" THEN {"Err"} ELSE {"Some", "Ok"}

\* C2: during one call of match, map, mapOr, flatMap or mapErr the function of
\* the receiver's variant is invoked exactly once with the receiver's payload
\* (no argument for the None branch), no other function is invoked, and match
\* returns the value of the branch it invoked.
C2_OneCallOnMatchingBranch ==
  /\ last.op = "match" =>
       /\ Len(last.calls) = 1
       /\ last.calls[1].slot = Receiver.cls
       /\ last.calls[1].fn = last.args.matcher[Receiver.cls]
       /\ last.calls[1].args = Payload(Receiver)
       /\ last.outcome = Return(last.calls[1].ret)
  /\ last.op \in {"map", "mapOr", "flatMap", "mapErr"} =>
       IF Receiver.cls \in Owners(last.op)
       THEN /\ Len(last.calls) = 1
            /\ last.calls[1].fn = last.args.fn
            /\ last.calls[1].args = Payload(Receiver)
       ELSE last.calls = <<>>

\* match on an Err has invoked the Err branch, once, and returned its value.
C2_Witness ==
  /\ last.op = "match"
  /\ Receiver.cls = "Err"
  /\ Len(last.calls) = 1
  /\ last.calls[1].slot = "Err"
  /\ last.outcome = Return(Apply(last.args.matcher.Err, Receiver.error))

\* C3: a call raises if and only if it is unwrap on a None or on an Err;
\* unwrap on a Some or an Ok returns the payload.
C3_OnlyUnwrapOnEmptyRaises ==
  /\ (last.outcome.kind = "throw") <=>
       (last.op = "unwrap" /\ Receiver.cls \in {"None", "Err"})
  /\ (last.op = "unwrap" /\ Receiver.cls \in {"Some", "Ok"}) =>
       last.outcome = Return(Receiver.value)

\* unwrap has raised on a None.
C3_Witness ==
  /\ last.op = "unwrap"
  /\ Receiver.cls = "None"
  /\ last.outcome.kind = "throw"

\* s occurs in t as a contiguous piece.
IsInfix(s, t) ==
  \E i \in 0..(Len(t) - Len(s)) : \A k \in 1..Len(s) : t[i + k] = s[k]

\* The textual form of a payload, as String(v) gives it.
TextOf(v) ==
  CASE v.t = "null" -> <<"n", "u", "l", "l">>
    [] v.t = "undefined" -> <<"u", "n", "d", "e", "f", "i", "n", "e", "d">>
    [] OTHER -> Rendered(v)

\* C4: for every error payload e, unwrap on Err(e) fails with the library's
\* own error, whose message contains the textual form of e.
C4_ErrUnwrapCarriesPayload ==
  (last.op = "unwrap" /\ Receiver.cls = "Err") =>
    /\ last.outcome.kind = "throw"
    /\ last.outcome.error.name = "Error"
    /\ IsInfix(TextOf(Receiver.error), last.outcome.error.message)

\* The start of the chain of map calls that made instance a.
RECURSIVE MapRoot(_)
MapRoot(a) == IF origin[a].op = "map" THEN MapRoot(origin[a].from) ELSE a

\* C5: map keeps the variant and transforms only the value: Some(v) gives
\* Some(f(v)), Ok(v) gives Ok(f(v)), None gives None, Err(e) gives Err(e); so
\* a chain of one or more map calls from a None ends in a None, and from an
\* Err(e) in an Err holding e.
C5_MapPreservesVariant ==
  /\ last.op = "map" =>
       /\ ReturnsInstance
       /\ Returned =
            CASE Receiver.cls = "Some" -> MkSome(Apply(last.args.fn, Receiver.value))
              [] Receiver.cls = "Ok" -> MkOk(Apply(last.args.fn, Receiver.value))
              [] Receiver.cls = "None" -> MkNone
              [] Receiver.cls = "Err" -> MkErr(Receiver.error)
  /\ \A a \in DOMAIN heap :
       MapRoot(a) # a =>
         /\ heap[MapRoot(a)].cls = "None" => heap[a] = MkNone
         /\ heap[MapRoot(a)].cls = "Err" => heap[a] = MkErr(heap[MapRoot(a)].error)

\* Two map calls in a row, with a function that changes its argument, have
\* been made from an Err.
C5_Witness ==
  /\ Len(heap) = 3
  /\ heap[1].cls = "Err"
  /\ origin[2].op = "map"
  /\ origin[3].op = "map"
  /\ last.op = "map"
  /\ last.args.fn = "inc"
  /\ heap[3] = heap[1]

C7_MapOrNeverEmpty ==
  /\ last.op = "mapOr" =>
       /\ ReturnsInstance
       /\ Returned =
            CASE Receiver.cls = "Some" -> MkSome(Apply(last.args.fn, Receiver.value))
              [] Receiver.cls = "Ok" -> MkOk(Apply(last.args.fn, Receiver.value))
              [] Receiver.cls = "None" -> MkSome(last.args.def)
              [] Receiver.cls = "Err" -> MkOk(last.args.def)
  /\ (last.op = "unwrap" /\ origin[last.this].op = "mapOr") =>
       /\ last.outcome.kind = "return"
       /\ Receiver.cls \in {"Some", "Ok"}

\* unwrap has returned the value of what mapOr made from an Err.
C7_Witness ==
  /\ last.op = "unwrap"
  /\ origin[last.this].op = "mapOr"
  /\ heap[origin[last.this].from].cls = "Err"
  /\ last.outcome.kind = "return"

\* C8: unwrapOr never raises; it returns the held value of a Some or an Ok
\* and the default on a None or an Err.
C8_UnwrapOrValueOrDefault ==
  last.op = "unwrapOr" =>
    last.outcome =
      Return(IF Receiver.cls \in {"Some", "Ok"} THEN Receiver.value ELSE last.args.def)

\* unwrapOr on an Err has returned a default that differs from the error.
C8_Witness ==
  /\ last.op = "unwrapOr"
  /\ Receiver.cls = "Err"
  /\ last.args.def # Receiver.error
  /\ last.outcome = Return(last.args.def)

\* What ok() and err() would allocate for the instance at a.
OkView(a) == LET e == Result_ok(heap, a) IN e.heap[e.outcome.value.addr]
ErrView(a) == LET e == Result_err(heap, a) IN e.heap[e.outcome.value.addr]

\* C9: ok() is Some(v) on Ok(v) and None on Err(e); err() is None on Ok(v)
\* and Some(e) on Err(e); for every Result exactly one of the two is a Some,
\* and it holds the Result's payload.
C9_OkErrProjections ==
  /\ last.op = "ok" =>
       /\ ReturnsInstance
       /\ Returned = IF Receiver.cls = "Ok" THEN MkSome(Receiver.value) ELSE MkNone
  /\ last.op = "err" =>
       /\ ReturnsInstance
       /\ Returned = IF Receiver.cls = "Ok" THEN MkNone ELSE MkSome(Receiver.error)
  /\ \A a \in DOMAIN heap :
       heap[a].cls \in {"Ok", "Err"} =>
         /\ (OkView(a).cls = "Some") # (ErrView(a).cls = "Some")
         /\ OkView(a).cls = "Some" => <<OkView(a).value>> = Payload(heap[a])
         /\ ErrView(a).cls = "Some" => <<ErrView(a).value>> = Payload(heap[a])

\* err() on an Err has returned a Some holding the error.
C9_Witness ==
  /\ last.op = "err"
  /\ Receiver.cls = "Err"
  /\ Returned = MkSome(Receiver.error)

\* C10: mapErr transforms only the error: on Ok(v) it returns an Ok holding v
\* and does not call f; on Err(e) it returns an Err holding f(e), so
\* Err(e).mapErr(f).err().unwrap() is f(e).
C10_MapErrOnlyError ==
  /\ last.op = "mapErr" =>
       /\ ReturnsInstance
       /\ Receiver.cls = "Ok" => Returned = MkOk(Receiver.value) /\ last.calls = <<>>
       /\ Receiver.cls = "Err" => Returned = MkErr(Apply(last.args.fn, Receiver.error))
  /\ ( /\ last.op = "unwrap"
       /\ origin[last.this].op = "err"
       /\ origin[origin[last.this].from].op = "mapErr"
       /\ heap[origin[origin[last.this].from].from].cls = "Err" ) =>
       LET mid == origin[last.this].from
       IN last.outcome =
            Return(Apply(origin[mid].calls[1].fn, heap[origin[mid].from].error))

\* Err(e).mapErr(inc).err().unwrap() has returned.
C10_Witness ==
  /\ last.op = "unwrap"
  /\ origin[last.this].op = "err"
  /\ origin[origin[last.this].from].op = "mapErr"
  /\ heap[origin[origin[last.this].from].from].cls = "Err"
  /\ origin[origin[last.this].from].calls[1].fn = "inc"
  /\ last.outcome.kind = "return"

\* Equality as the host language decides it for the payloads of the model:
\* the same value, except that NaN equals nothing, itself included.
HostEquals(x, v) == x = v /\ x # NaN

\* C11: contains compares the candidate with the payload of the receiver's
\* variant: on Some(v) and Ok(v) it is true iff x equals v, on Err(e) it is
\* true iff x equals e, and on None it is false for every x.
C11_ContainsComparesPayload ==
  last.op = "contains" =>
    last.outcome =
      Return(Bool(CASE Receiver.cls \in {"Some", "Ok"} ->
                         HostEquals(last.args.value, Receiver.value)
                    [] Receiver.cls = "Err" -> HostEquals(last.args.value, Receiver.error)
                    [] Receiver.cls = "None" -> FALSE))

\* contains on an Err has answered true for the error it holds.
C11_Witness ==
  /\ last.op = "contains"
  /\ Receiver.cls = "Err"
  /\ last.args.value = Receiver.error
  /\ last.outcome = Return(Bool(TRUE))

\* C12: instances are immutable: no step changes the variant or the payload
\* of an instance that exists, and map, mapOr, mapErr, ok and err return an
\* instance that did not exist before the call.
C12_InstancesImmutable ==
  [][ /\ \A a \in DOMAIN heap : heap'[a] = heap[a]
      /\ last'.op \in {"map", "mapOr", "mapErr", "ok", "err"} =>
           /\ last'.outcome.kind = "return"
           /\ last'.outcome.value.t = "object"
           /\ last'.outcome.value.addr \notin DOMAIN heap ]_vars

\* The instances a free constructor made.
MadeBy(op) == {a \in DOMAIN heap : origin[a].op = op}

====
